---- MODULE Spec2Model ----
(***************************************************************************)
(* Score extraction engine of dedlines-app (src/app.py) and its callers.   *)
(*                                                                         *)
(* Text is modelled as Python models it: a string is a sequence of Unicode *)
(* code points (ord(ch)), so "итог" is <<1080, 1090, 1086, 1075>>.         *)
(* A float is modelled as an exact decimal with four fractional digits:    *)
(* the integer v stands for the float v / Scale.                           *)
(* None is the record [none |-> TRUE]; an optional number that is present  *)
(* is [num |-> v]; a dict is a record.                                     *)
(***************************************************************************)
EXTENDS Integers, Sequences, FiniteSets, TLC

VARIABLES
    text, once, twice,          \* normalisation: the input and the results of one and two passes
    cell, number,               \* _safe_number: the cell and what was returned for it
    rows, surname, flags,       \* find_score_by_surname: its arguments,
    locals, found,              \*   its local variables at return and its return value
    remote, pc, sheet_i, results, \* api_scores: what each sheet's server answers, loop position, results list
    reads,                      \* find_score_by_surname: the subscripts it has evaluated
    bot_pc, bot_i, bot_results, bot_errors, \* cmd_scores: loop position, results and errors lists
    header_cells, total_ret,    \* _find_preferred_total_index: its argument and return value
    grid, header_ret,           \* _find_header_row: its argument and return value
    users, next_user_id,        \* the user table: a set of rows, and the next primary key
    requests, flashed,          \* admin requests between their checks and their commit; the last flash
    deadlines, next_deadline_id, \* the deadline table: a set of rows, and the next primary key
    disk, next_uuid             \* the names of the files in UPLOAD_DIR; the next uuid4

\* the variables of the score pipeline
scoreVars == <<text, once, twice, cell, number, rows, surname, flags, locals, found,
               remote, pc, sheet_i, results, reads>>

botVars == <<bot_pc, bot_i, bot_results, bot_errors>>

locatorVars == <<header_cells, total_ret, grid, header_ret>>

adminVars == <<users, next_user_id, requests, flashed>>

uploadVars == <<deadlines, next_deadline_id, disk, next_uuid>>

\* the variables outside the score pipeline
restVars == <<botVars, locatorVars, adminVars, uploadVars>>

vars == <<scoreVars, restVars>>

None == [none |-> TRUE]

IsNone(x) == "none" \in DOMAIN x

\* Value of a call that has not been made yet.
NotCalled == [notcalled |-> TRUE]

IsCalled(x) == ~("notcalled" \in DOMAIN x)

\* The parts of the state an operation under study does not use.
BotIdle == bot_pc = "idle" /\ bot_i = 0 /\ bot_results = <<>> /\ bot_errors = <<>>

LocatorIdle ==
    /\ header_cells = <<>> /\ total_ret = NotCalled
    /\ grid = <<>> /\ header_ret = NotCalled

AdminIdle == users = {} /\ next_user_id = 1 /\ requests = {} /\ flashed = ""

UploadIdle == deadlines = {} /\ next_deadline_id = 1 /\ disk = {} /\ next_uuid = 1

RestIdle == BotIdle /\ LocatorIdle /\ AdminIdle /\ UploadIdle

ScoreIdle ==
    /\ text = <<>> /\ once = NotCalled /\ twice = NotCalled
    /\ cell = <<>> /\ number = NotCalled
    /\ rows = <<>> /\ surname = <<>> /\ flags = NotCalled
    /\ locals = NotCalled /\ found = NotCalled /\ reads = {}
    /\ remote = <<>> /\ pc = "idle" /\ sheet_i = 0 /\ results = <<>>

----------------------------------------------------------------------------
(* Python string primitives, on code points.                               *)

\* str.isspace() / regex \s for the code points below U+0100.
PyWhitespace == {9, 10, 11, 12, 13, 28, 29, 30, 31, 32, 133, 160}

RECURSIVE LStrip(_)
LStrip(s) ==
    IF s # <<>> /\ Head(s) \in PyWhitespace THEN LStrip(Tail(s)) ELSE s

RECURSIVE RStrip(_)
RStrip(s) ==
    IF s # <<>> /\ s[Len(s)] \in PyWhitespace
    THEN RStrip(SubSeq(s, 1, Len(s) - 1))
    ELSE s

\* str.strip()
Strip(s) == RStrip(LStrip(s))

\* str.replace(a, b) for single characters a, b
Replace(s, a, b) == [k \in 1..Len(s) |-> IF s[k] = a THEN b ELSE s[k]]

\* str.lower(), one code point at a time: A-Z, the Cyrillic capitals
\* U+0410..U+042F (+32), U+0400..U+040F (+80, so that Ё U+0401 gives
\* ё U+0451) and the even code points of U+04D0..U+04FF (+1).
LowerChar(c) ==
    IF 65 <= c /\ c <= 90 THEN c + 32
    ELSE IF 1040 <= c /\ c <= 1071 THEN c + 32
    ELSE IF 1024 <= c /\ c <= 1039 THEN c + 80
    ELSE IF 1232 <= c /\ c <= 1279 /\ c % 2 = 0 THEN c + 1
    ELSE c

Lower(s) == [k \in 1..Len(s) |-> LowerChar(s[k])]

\* re.sub(r"\s+", " ", s): every run of whitespace becomes one space.
RECURSIVE CollapseWs(_)
CollapseWs(s) ==
    IF s = <<>> THEN <<>>
    ELSE IF Head(s) \in PyWhitespace
         THEN <<32>> \o CollapseWs(LStrip(s))
         ELSE <<Head(s)>> \o CollapseWs(Tail(s))

\* a in b, for strings: some window of b equals a (true for the empty a).
Contains(b, a) ==
    \E k \in 0..(Len(b) - Len(a)) : SubSeq(b, k + 1, k + Len(a)) = a

\* " ".join(cells)
RECURSIVE JoinSpace(_)
JoinSpace(cells) ==
    IF cells = <<>> THEN <<>>
    ELSE IF Len(cells) = 1 THEN cells[1]
    ELSE cells[1] \o <<32>> \o JoinSpace(Tail(cells))

----------------------------------------------------------------------------
(* unicodedata.normalize("NFKC", s) on the code points the model uses.     *)
(* UnicodeData: U+00A0 is <noBreak> U+0020; Й й Ё ё, U+04D6/7 (Е е with    *)
(* breve), U+04E4/5 (И и with diaeresis) and U+1E97 (t with diaeresis)     *)
(* decompose canonically into a base letter and U+0306 (breve) or U+0308   *)
(* (diaeresis). Both marks have combining class 230, so canonical          *)
(* reordering never swaps them. There is no precomposed capital T with     *)
(* diaeresis, and none of T or t with breve.                               *)

Decompose(c) ==
    CASE c = 160  -> <<32>>
      [] c = 1049 -> <<1048, 774>>
      [] c = 1081 -> <<1080, 774>>
      [] c = 1025 -> <<1045, 776>>
      [] c = 1105 -> <<1077, 776>>
      [] c = 1238 -> <<1045, 774>>
      [] c = 1239 -> <<1077, 774>>
      [] c = 1252 -> <<1048, 776>>
      [] c = 1253 -> <<1080, 776>>
      [] c = 7831 -> <<116, 776>>
      [] OTHER    -> <<c>>

CombiningClass(c) == IF c \in {774, 776} THEN 230 ELSE 0

\* The primary composite of a starter and a mark, or 0 when there is none.
Composite(a, b) ==
    CASE a = 1048 /\ b = 774 -> 1049
      [] a = 1080 /\ b = 774 -> 1081
      [] a = 1045 /\ b = 776 -> 1025
      [] a = 1077 /\ b = 776 -> 1105
      [] a = 1045 /\ b = 774 -> 1238
      [] a = 1077 /\ b = 774 -> 1239
      [] a = 1048 /\ b = 776 -> 1252
      [] a = 1080 /\ b = 776 -> 1253
      [] a = 116  /\ b = 776 -> 7831
      [] OTHER               -> 0

RECURSIVE DecomposeAll(_)
DecomposeAll(s) ==
    IF s = <<>> THEN <<>> ELSE Decompose(Head(s)) \o DecomposeAll(Tail(s))

\* Canonical composition (UAX #15): a character combines with the last
\* starter unless a character of equal or higher class stands between them.
RECURSIVE ComposeFrom(_, _, _, _, _)
ComposeFrom(s, k, out, starterPos, lastClass) ==
    IF k > Len(s) THEN out
    ELSE LET ch == s[k]
             chClass == CombiningClass(ch)
             comp == IF starterPos = 0 THEN 0 ELSE Composite(out[starterPos], ch)
         IN  IF comp # 0 /\ (lastClass < chClass \/ lastClass = 0)
             THEN ComposeFrom(s, k + 1, [out EXCEPT ![starterPos] = comp],
                              starterPos, lastClass)
             ELSE ComposeFrom(s, k + 1, Append(out, ch),
                              IF chClass = 0 THEN Len(out) + 1 ELSE starterPos,
                              chClass)

NFKC(s) == ComposeFrom(DecomposeAll(s), 1, <<>>, 0, 0)

----------------------------------------------------------------------------
(* Text Normalizer.                                                        *)

_norm(s) == CollapseWs(Lower(Strip(Replace(NFKC(s), 160, 32))))

\* keep only "а" <= ch <= "я" (U+0430..U+044F) and the space
KeepCyrillic(s) == SelectSeq(s, LAMBDA ch : (1072 <= ch /\ ch <= 1103) \/ ch = 32)

_norm_name(s) == Strip(CollapseWs(KeepCyrillic(Replace(_norm(s), 1105, 1077))))

----------------------------------------------------------------------------
(* Numeric Cell Parser.                                                    *)

\* The float v / Scale is modelled by the integer v. A cell of the model
\* carries at most four fractional digits and no exponent, for which the
\* decimal value and the double agree on every comparison made below.
Scale == 10000

MagnitudeLimit == 100000

IsDigit(c) == 48 <= c /\ c <= 57

AllDigits(s) == \A k \in 1..Len(s) : IsDigit(s[k])

RECURSIVE DigitsValue(_)
DigitsValue(s) ==
    IF s = <<>> THEN 0
    ELSE DigitsValue(SubSeq(s, 1, Len(s) - 1)) * 10 + (s[Len(s)] - 48)

RECURSIVE Pow10(_)
Pow10(n) == IF n = 0 THEN 1 ELSE 10 * Pow10(n - 1)

\* Value, in 1/Scale units, of the digits after the decimal point.
FracValue(s) == DigitsValue(s) * Pow10(4 - Len(s))

\* Index of the first "." of s, or 0.
DotPos(s) ==
    IF \E k \in 1..Len(s) : s[k] = 46
    THEN CHOOSE k \in 1..Len(s) : s[k] = 46 /\ \A m \in 1..(k - 1) : s[m] # 46
    ELSE 0

\* digits, at most one point, at least one digit: the finite float
\* sign * ip.fp, else ValueError
ParseDecimal(ip, fp, sign) ==
    IF AllDigits(ip) /\ AllDigits(fp) /\ Len(ip) + Len(fp) > 0
    THEN [kind |-> "finite", v |-> sign * (DigitsValue(ip) * Scale + FracValue(fp))]
    ELSE [err |-> TRUE]

SplitAtDot(body, dot, sign) ==
    IF dot = 0 THEN ParseDecimal(body, <<>>, sign)
    ELSE ParseDecimal(SubSeq(body, 1, dot - 1), SubSeq(body, dot + 1, Len(body)), sign)

\* what follows the sign: "inf", "infinity", "nan" in any case, or a decimal
ParseUnsigned(body, sign) ==
    IF Lower(body) \in {<<105, 110, 102>>, <<105, 110, 102, 105, 110, 105, 116, 121>>}
    THEN [kind |-> "inf"]
    ELSE IF Lower(body) = <<110, 97, 110>>
    THEN [kind |-> "nan"]
    ELSE SplitAtDot(body, DotPos(body), sign)

ParseSigned(t) ==
    IF t # <<>> /\ t[1] = 45 THEN ParseUnsigned(Tail(t), -1)
    ELSE IF t # <<>> /\ t[1] = 43 THEN ParseUnsigned(Tail(t), 1)
    ELSE ParseUnsigned(t, 1)

\* float(s): [err |-> TRUE] for ValueError, else the kind of float and, for
\* a finite one, its value. Grammar: whitespace, sign, then "inf",
\* "infinity", "nan" or digits with at most one point.
PyFloat(s) == ParseSigned(Strip(s))

Abs(v) == IF v < 0 THEN -v ELSE v

\* the checks of _safe_number on what float(s) gave
\* Variant of CheckedFloat whose limit is inclusive: abs(v) > 100000.
CheckedFloatInclusive(f) ==
    IF "err" \in DOMAIN f THEN None
    ELSE IF f.kind # "finite" THEN None
    ELSE IF Abs(f.v) > MagnitudeLimit * Scale THEN None
    ELSE [num |-> f.v]

CheckedFloat(f) ==
    IF "err" \in DOMAIN f THEN None
    ELSE IF f.kind # "finite" THEN None
    ELSE IF Abs(f.v) >= MagnitudeLimit * Scale THEN None
    ELSE [num |-> f.v]

_safe_number(c) == CheckedFloat(PyFloat(Replace(Strip(c), 44, 46)))

RECURSIVE Sum(_)
Sum(vals) == IF vals = <<>> THEN 0 ELSE Head(vals) + Sum(Tail(vals))

\* round(x, 3): the nearest multiple of 0.001. A value exactly half way has
\* no exact double, and Python rounds the double it has; the cells of the
\* model end in an even fourth digit, so no sum of them is half way.
Round3(x) ==
    LET r == x % 10
    IN  IF r < 5 THEN x - r ELSE x - r + 10

----------------------------------------------------------------------------
(* The words the code looks for, as code points.                           *)

ITOG == <<1080, 1090, 1086, 1075>>  \* "итог"

TOTAL == <<116, 111, 116, 97, 108>>  \* "total"

FIO == <<1092, 1080, 1086>>  \* "фио"

STUDENT == <<1089, 1090, 1091, 1076, 1077, 1085, 1090>>  \* "студент"

FAMILIYA == <<1092, 1072, 1084, 1080, 1083, 1080, 1103>>  \* "фамилия"

LR == <<1083, 1088>>  \* "лр"

----------------------------------------------------------------------------
(* Header Locator and Total-Column Locator. Row and column indices are     *)
(* Python's: the first row of a grid is row 0, rows[i] in Python is        *)
(* rows[i + 1] here.                                                       *)

HeaderScanRows == 10

\* \w of the regex engine
IsWord(c) ==
    \/ IsDigit(c)
    \/ (65 <= c /\ c <= 90) \/ (97 <= c /\ c <= 122) \/ c = 95
    \/ (1024 <= c /\ c <= 1153) \/ (1162 <= c /\ c <= 1279) \/ c = 7831

StartsWith(s, p) == Len(p) <= Len(s) /\ SubSeq(s, 1, Len(p)) = p

\* re.search(r"\bлр\s*\d+", c)
HasLabMarker(c) ==
    \E k \in 1..Len(c) :
        /\ StartsWith(SubSeq(c, k, Len(c)), LR)
        /\ (k = 1 \/ ~IsWord(c[k - 1]))
        /\ LET rest == LStrip(SubSeq(c, k + 2, Len(c)))
           IN  rest # <<>> /\ IsDigit(rest[1])

\* [_norm(c) for c in row]
RECURSIVE NormCells(_)
NormCells(row) ==
    IF row = <<>> THEN <<>> ELSE <<_norm(Head(row))>> \o NormCells(Tail(row))

\* the three header tests of the first loop, on the normalised cells n
HasHeaderMarker(n) ==
    \/ \E m \in {FIO, STUDENT, FAMILIYA} : Contains(n[1], m)
    \/ \E k \in 1..Len(n) : Contains(n[k], ITOG) \/ Contains(n[k], TOTAL)
    \/ \E k \in 1..Len(n) : HasLabMarker(n[k])

IsHeaderLike(row) == HasHeaderMarker(NormCells(row))

\* first loop, from row i on: the first non-empty header-like row among
\* Variant of ScanHeader that scans every row of the grid.
RECURSIVE ScanHeaderAllRows(_, _)
ScanHeaderAllRows(rs, i) ==
    IF i >= Len(rs) THEN -1
    ELSE IF rs[i + 1] # <<>> /\ IsHeaderLike(rs[i + 1]) THEN i
    ELSE ScanHeaderAllRows(rs, i + 1)

\* rows[:10], or -1
RECURSIVE ScanHeader(_, _)
ScanHeader(rs, i) ==
    IF i >= Len(rs) \/ i >= HeaderScanRows THEN -1
    ELSE IF rs[i + 1] # <<>> /\ IsHeaderLike(rs[i + 1]) THEN i
    ELSE ScanHeader(rs, i + 1)

\* Variant of ScanNonBlank that stops at the first row that has a cell.
RECURSIVE ScanNonEmpty(_, _)
ScanNonEmpty(rs, i) ==
    IF i >= Len(rs) THEN -1
    ELSE IF rs[i + 1] # <<>> THEN i
    ELSE ScanNonEmpty(rs, i + 1)

\* second loop, from row i on: the first row with a non-blank cell, or -1
RECURSIVE ScanNonBlank(_, _)
ScanNonBlank(rs, i) ==
    IF i >= Len(rs) THEN -1
    ELSE IF \E k \in 1..Len(rs[i + 1]) : Strip(rs[i + 1][k]) # <<>> THEN i
    ELSE ScanNonBlank(rs, i + 1)

_find_header_row(rs) ==
    LET a == ScanHeader(rs, 0)
        b == ScanNonBlank(rs, 0)
    IN  IF a >= 0 THEN a ELSE IF b >= 0 THEN b ELSE 0

\* re.fullmatch(r"итог\s*\([^)]*\)", hj)
IsItogParen(hj) ==
    /\ StartsWith(hj, ITOG)
    /\ LET rest == LStrip(SubSeq(hj, 5, Len(hj)))
       IN  /\ Len(rest) >= 2
           /\ rest[1] = 40
           /\ rest[Len(rest)] = 41
           /\ \A k \in 2..(Len(rest) - 1) : rest[k] # 41

\* rank of a normalised header cell hj: 1, 2, 3, or 0 for a cell that is skipped
RankOf(hj) ==
    IF hj = <<>> THEN 0
    ELSE IF hj = ITOG \/ IsItogParen(hj) \/ hj = TOTAL THEN 1
    ELSE IF StartsWith(hj, ITOG \o <<32>>) \/ StartsWith(hj, TOTAL \o <<32>>) THEN 2
    ELSE IF Contains(hj, ITOG) \/ Contains(hj, TOTAL) THEN 3
    ELSE 0

TotalRank(h) == RankOf(_norm(h))

SetMin(S) == CHOOSE x \in S : \A y \in S : x <= y

SetMax(S) == CHOOSE x \in S : \A y \in S : x >= y

\* Variant of BestRightmost that returns the lowest index of the best rank.
BestLeftmost(ranks) ==
    IF ranks = {} THEN None
    ELSE [num |-> SetMin({p[2] : p \in {q \in ranks : q[1] = SetMin({r[1] : r \in ranks})}})]

\* best = min(r for r, _ in ranks); max(idx for r, idx in ranks if r == best)
BestRightmost(ranks) ==
    IF ranks = {} THEN None
    ELSE [num |-> SetMax({p[2] : p \in {q \in ranks : q[1] = SetMin({r[1] : r \in ranks})}})]

_find_preferred_total_index(headers) ==
    BestRightmost({p \in {<<TotalRank(headers[j + 1]), j>> : j \in 0..(Len(headers) - 1)} :
                       p[1] # 0})

----------------------------------------------------------------------------
(* Row Matcher and Extraction Strategy Selector.                           *)

Unbounded == 1000000000

\* for i, row in enumerate(rows[hdr_idx + 1:], start=hdr_idx + 1): the
\* first non-empty row from row i on whose text contains the target
\* Variant of MatchRow without the "if target" guard.
RECURSIVE MatchRowAnyTarget(_, _, _)
MatchRowAnyTarget(rs, i, target) ==
    IF i >= Len(rs) THEN None
    ELSE IF /\ rs[i + 1] # <<>>
            /\ Contains(_norm_name(JoinSpace(rs[i + 1])), target)
         THEN [num |-> i]
         ELSE MatchRowAnyTarget(rs, i + 1, target)

\* Variant of MatchRow whose search starts on the header row.
MatchRowFromHeader(rs, i, target) ==
    IF {k \in (i - 1)..(Len(rs) - 1) :
           /\ rs[k + 1] # <<>>
           /\ target # <<>>
           /\ Contains(_norm_name(JoinSpace(rs[k + 1])), target)} = {}
    THEN None
    ELSE [num |-> SetMin({k \in (i - 1)..(Len(rs) - 1) :
                             /\ rs[k + 1] # <<>>
                             /\ target # <<>>
                             /\ Contains(_norm_name(JoinSpace(rs[k + 1])), target)})]

RECURSIVE MatchRow(_, _, _)
MatchRow(rs, i, target) ==
    IF i >= Len(rs) THEN None
    ELSE IF /\ rs[i + 1] # <<>>
            /\ target # <<>>
            /\ Contains(_norm_name(JoinSpace(rs[i + 1])), target)
         THEN [num |-> i]
         ELSE MatchRow(rs, i + 1, target)

\* {"sum": v, "values": [v], "row": row}
SoleValue(v, row) == [sum |-> v.num, values |-> <<v.num>>, row |-> row]

\* Variant of TakeLast that scans from the left.
TakeFirst(row, j) ==
    IF {k \in 0..j : ~IsNone(_safe_number(row[k + 1]))} = {} THEN None
    ELSE SoleValue(_safe_number(row[SetMin({k \in 0..j : ~IsNone(_safe_number(row[k + 1]))}) + 1]),
                   row)

\* for j in range(len(row) - 1, -1, -1): the first cell that parses
RECURSIVE TakeLast(_, _)
TakeLast(row, j) ==
    IF j < 0 THEN None
    ELSE IF ~IsNone(_safe_number(row[j + 1])) THEN SoleValue(_safe_number(row[j + 1]), row)
    ELSE TakeLast(row, j - 1)

Min2(a, b) == IF a <= b THEN a ELSE b

\* [v] if v is not None else []
Parsed(v) == IF IsNone(v) THEN <<>> ELSE <<v.num>>

\* vals of _sum_left_until_total: the parsed cells 0 .. end_ - 1, in order
RECURSIVE ParsedUpTo(_, _)
ParsedUpTo(row, end_) ==
    IF end_ <= 0 THEN <<>>
    ELSE ParsedUpTo(row, end_ - 1) \o Parsed(_safe_number(row[end_]))

\* {"sum": round(sum(vals), 3), "values": vals, "row": row}
SumResult(vals, row) == [sum |-> Round3(Sum(vals)), values |-> vals, row |-> row]

\* Variant of _sum_left_until_total that includes the cell at stop_at.
SumThroughTotal(row, stop_at) ==
    SumResult(ParsedUpTo(row, Min2(stop_at + 1, Len(row))), row)

_sum_left_until_total(row, stop_at) ==
    SumResult(ParsedUpTo(row, Min2(stop_at, Len(row))), row)

\* stop_at, from total_idx and headers
StopAt(total_idx, headers) ==
    IF ~IsNone(total_idx) THEN total_idx.num
    ELSE IF headers # <<>> THEN Len(headers) ELSE Unbounded

\* rows[hdr_idx] if hdr_idx < len(rows) else []
HeadersAt(rs, hdr_idx) == IF hdr_idx < Len(rs) THEN rs[hdr_idx + 1] ELSE <<>>

LocalsFrom(rs, target, hdr_idx, headers, total_idx) ==
    [hdr_idx |-> hdr_idx, headers |-> headers, total_idx |-> total_idx,
     stop_at |-> StopAt(total_idx, headers), target |-> target,
     row_idx |-> MatchRow(rs, hdr_idx + 1, target)]

LocalsAt(rs, target, hdr_idx) ==
    LocalsFrom(rs, target, hdr_idx, HeadersAt(rs, hdr_idx),
               _find_preferred_total_index(HeadersAt(rs, hdr_idx)))

\* The local variables of find_score_by_surname when the row search has
\* ended (None for the empty grid, which returns before any is set).
FindLocals(rs, sn) ==
    IF rs = <<>> THEN None ELSE LocalsAt(rs, _norm_name(sn), _find_header_row(rs))

\* prefer_total with a total column inside the row
\* Variant of PreferTotal without the fall back to the sum.
PreferTotalNoFallback(row, total_idx, stop_at) ==
    IF ~IsNone(_safe_number(row[total_idx.num + 1]))
    THEN SoleValue(_safe_number(row[total_idx.num + 1]), row)
    ELSE None

PreferTotal(row, total_idx, stop_at) ==
    IF ~IsNone(_safe_number(row[total_idx.num + 1]))
    THEN SoleValue(_safe_number(row[total_idx.num + 1]), row)
    ELSE _sum_left_until_total(row, stop_at)

\* Variant of Extract that tests prefer_total before take_last_total.
ExtractPreferFirst(row, total_idx, stop_at, prefer_total, sum_until_total, take_last_total) ==
    IF prefer_total /\ ~IsNone(total_idx) /\ total_idx.num < Len(row)
    THEN PreferTotal(row, total_idx, stop_at)
    ELSE IF take_last_total THEN TakeLast(row, Len(row) - 1)
    ELSE _sum_left_until_total(row, stop_at)

\* the strategy, on the matched row
Extract(row, total_idx, stop_at, prefer_total, sum_until_total, take_last_total) ==
    IF take_last_total THEN TakeLast(row, Len(row) - 1)
    ELSE IF prefer_total /\ ~IsNone(total_idx) /\ total_idx.num < Len(row)
    THEN PreferTotal(row, total_idx, stop_at)
    ELSE IF sum_until_total THEN _sum_left_until_total(row, stop_at)
    ELSE _sum_left_until_total(row, stop_at)

\* A subscript the code evaluates: index idx of a list of length len.
Read(len, idx) == [len |-> len, idx |-> idx]

\* n[0] if n else "": for the rows the first loop of _find_header_row visits
\* (those up to the row it returns at) that pass "if not row: continue"
FirstCellReads(rs, hdr_idx) ==
    {Read(Len(rs[i + 1]), 0) :
        i \in {k \in 0..(Min2(HeaderScanRows, Len(rs)) - 1) :
                 /\ rs[k + 1] # <<>>
                 /\ \A m \in 0..(k - 1) : rs[m + 1] = <<>> \/ ~IsHeaderLike(rs[m + 1])}}

\* rows[hdr_idx] if hdr_idx < len(rows) else []
HeaderReads(rs, hdr_idx) == IF hdr_idx < Len(rs) THEN {Read(Len(rs), hdr_idx)} ELSE {}

\* row[j] for j in range(len(row) - 1, -1, -1), up to the return
TakeLastReads(row) ==
    {Read(Len(row), j) :
        j \in {k \in 0..(Len(row) - 1) :
                 \A m \in (k + 1)..(Len(row) - 1) : IsNone(_safe_number(row[m + 1]))}}

\* Variant of SumReads without min(stop_at, len(row)).
SumReadsToStop(row, stop_at) == {Read(Len(row), j) : j \in 0..(stop_at - 1)}

\* row[j] for j in range(0, end)
SumReads(row, stop_at) == {Read(Len(row), j) : j \in 0..(Min2(stop_at, Len(row)) - 1)}

\* row[total_idx], and the reads of _sum_left_until_total if it is called
PreferReads(row, total_idx, stop_at) ==
    {Read(Len(row), total_idx.num)} \cup
    (IF IsNone(_safe_number(row[total_idx.num + 1])) THEN SumReads(row, stop_at) ELSE {})

ExtractReads(row, total_idx, stop_at, prefer_total, sum_until_total, take_last_total) ==
    IF take_last_total THEN TakeLastReads(row)
    ELSE IF prefer_total /\ ~IsNone(total_idx) /\ total_idx.num < Len(row)
    THEN PreferReads(row, total_idx, stop_at)
    ELSE SumReads(row, stop_at)

\* The subscripts find_score_by_surname evaluates, given its locals.
FindReads(rs, loc, prefer_total, sum_until_total, take_last_total) ==
    IF IsNone(loc) THEN {}
    ELSE FirstCellReads(rs, loc.hdr_idx) \cup HeaderReads(rs, loc.hdr_idx) \cup
         (IF IsNone(loc.row_idx) THEN {}
          ELSE {Read(Len(rs), loc.row_idx.num)} \cup
               ExtractReads(rs[loc.row_idx.num + 1], loc.total_idx, loc.stop_at,
                            prefer_total, sum_until_total, take_last_total))

\* The return value of find_score_by_surname, given its locals.
FindResult(rs, loc, prefer_total, sum_until_total, take_last_total) ==
    IF IsNone(loc) THEN None
    ELSE IF IsNone(loc.row_idx) THEN None
    ELSE Extract(rs[loc.row_idx.num + 1], loc.total_idx, loc.stop_at,
                 prefer_total, sum_until_total, take_last_total)

find_score_by_surname(rs, sn, prefer_total, sum_until_total, take_last_total) ==
    FindResult(rs, FindLocals(rs, sn), prefer_total, sum_until_total, take_last_total)

----------------------------------------------------------------------------
(* Inputs: the grids a sheet can hand over, the surnames of users, the     *)
(* cells of the numeric parser and the strings of the normalizer.          *)

\* ["ФИО", "лр1", "лр2", "Итог", "комментарий"]
HdrFull ==
    <<<<1060, 1048, 1054>>, <<1083, 1088, 49>>, <<1083, 1088, 50>>, <<1048, 1090, 1086, 1075>>, <<1082, 1086, 1084, 1084, 1077, 1085, 1090, 1072, 1088, 1080, 1081>>>>

\* ["Студент", "ЛР 1", "ЛР 2"]
HdrNoTotal ==
    <<<<1057, 1090, 1091, 1076, 1077, 1085, 1090>>, <<1051, 1056, 32, 49>>, <<1051, 1056, 32, 50>>>>

\* ["Иванов итог", "ИТОГ (мод.1)", "лр1"]
HdrTotalEarly ==
    <<<<1048, 1074, 1072, 1085, 1086, 1074, 32, 1080, 1090, 1086, 1075>>, <<1048, 1058, 1054, 1043, 32, 40, 1084, 1086, 1076, 46, 49, 41>>, <<1083, 1088, 49>>>>

\* ["Группа", "балл"]
HdrPlain ==
    <<<<1043, 1088, 1091, 1087, 1087, 1072>>, <<1073, 1072, 1083, 1083>>>>

HeaderRows == {HdrFull, HdrNoTotal, HdrTotalEarly, HdrPlain}

\* ["Ведомость Иванов"]
TitleRow ==
    <<<<1042, 1077, 1076, 1086, 1084, 1086, 1089, 1090, 1100, 32, 1048, 1074, 1072, 1085, 1086, 1074>>>>

\* rows above the header: none, a title line, an empty CSV line
LeadRows == {<<>>, <<TitleRow>>, << <<>> >>}

\* ["Иванов", "5", "7", "12", "ok"]
RowIvanov ==
    <<<<1048, 1074, 1072, 1085, 1086, 1074>>, <<53>>, <<55>>, <<49, 50>>, <<111, 107>>>>

\* ["Иванов И.", "", "", "88.5"]
RowIvanovLast ==
    <<<<1048, 1074, 1072, 1085, 1086, 1074, 32, 1048, 46>>, <<>>, <<>>, <<56, 56, 46, 53>>>>

\* ["Петров", "0.0004", "0.0006", "abc"]
RowPetrov ==
    <<<<1055, 1077, 1090, 1088, 1086, 1074>>, <<48, 46, 48, 48, 48, 52>>, <<48, 46, 48, 48, 48, 54>>, <<97, 98, 99>>>>

\* ["Иванов"]
RowIvanovBare ==
    <<<<1048, 1074, 1072, 1085, 1086, 1074>>>>

\* ["Сидоров Пётр", "100000", "-2", "3,5", "4", "9"]
RowSidorov ==
    <<<<1057, 1080, 1076, 1086, 1088, 1086, 1074, 32, 1055, 1105, 1090, 1088>>, <<49, 48, 48, 48, 48, 48>>, <<45, 50>>, <<51, 44, 53>>, <<52>>, <<57>>>>

DataRows == {RowIvanov, RowIvanovLast, RowPetrov, RowIvanovBare, RowSidorov}

MaxDataRows == 2

RECURSIVE RowSeqs(_)
RowSeqs(n) ==
    IF n = 0 THEN {<<>>}
    ELSE LET shorter == RowSeqs(n - 1)
         IN  shorter \cup {Append(q, r) : q \in {x \in shorter : Len(x) = n - 1}, r \in DataRows}

Grids ==
    {<<>>} \cup {lead \o <<h>> \o d : lead \in LeadRows, h \in HeaderRows, d \in RowSeqs(MaxDataRows)}

SurnameIvanov == <<1048, 1074, 1072, 1085, 1086, 1074>>  \* "Иванов"

SurnamePetr == <<1055, 1025, 1058, 1056>>  \* "ПЁТР"

SurnameLatin == <<73, 118, 97, 110, 111, 118, 32, 55>>  \* "Ivanov 7"

\* User.surname: a name, or the column default ""
Surnames == {SurnameIvanov, SurnamePetr, SurnameLatin, <<>>}

FlagSets == [prefer_total : BOOLEAN, sum_until_total : BOOLEAN, take_last_total : BOOLEAN]

MaxPad == 1

RECURSIVE Spaces(_)
Spaces(n) == IF n = 0 THEN <<>> ELSE <<32>> \o Spaces(n - 1)

Pads == {Spaces(n) : n \in 0..MaxPad}

Signs == {<<>>, <<45>>, <<43>>}  \* "", "-", "+"

IntParts == {<<>>, <<48>>, <<51>>, <<57, 57, 57, 57, 57>>, <<49, 48, 48, 48, 48, 48>>}  \* "", "0", "3", "99999", "100000"

FracParts == {<<>>, <<53>>, <<57, 57, 57>>, <<48, 48, 48, 50>>}  \* "", "5", "999", "0002"

Words == {<<97, 98, 99>>, <<105, 110, 102>>, <<78, 97, 78>>, <<45, 73, 110, 102, 105, 110, 105, 116, 121>>}  \* "abc", "inf", "NaN", "-Infinity"

NumberCells ==
    Words \cup
    {a \o g \o n \o b : a \in Pads, g \in Signs, n \in IntParts, b \in Pads} \cup
    {a \o g \o n \o p \o f \o b :
        a \in Pads, g \in Signs, n \in IntParts, p \in {<<46>>, <<44>>}, f \in FracParts, b \in Pads}

\* T, t, U+0308, U+1E97, И, и, U+0306, ё, space, no-break space, tab, 5
NormAlphabet == {84, 116, 776, 7831, 1048, 1080, 774, 1105, 32, 160, 9, 53}

MaxTextLen == 3

RECURSIVE Strings(_)
Strings(n) ==
    IF n = 0 THEN {<<>>}
    ELSE LET shorter == Strings(n - 1)
         IN  shorter \cup {Append(q, c) : q \in {x \in shorter : Len(x) = n - 1}, c \in NormAlphabet}

----------------------------------------------------------------------------
(* The sheets and the multi-source run of api_scores.                      *)

\* name, and what sheet.get(flag, False) gives for each flag
SHEETS ==
    << [name |-> "ISRPO", prefer_total |-> FALSE, sum_until_total |-> TRUE, take_last_total |-> FALSE],
       [name |-> "Algorithms", prefer_total |-> FALSE, sum_until_total |-> TRUE, take_last_total |-> FALSE],
       [name |-> "DM", prefer_total |-> FALSE, sum_until_total |-> FALSE, take_last_total |-> TRUE],
       [name |-> "OP", prefer_total |-> TRUE, sum_until_total |-> FALSE, take_last_total |-> FALSE] >>

\* What the server of one sheet answers to requests.get: an exception
\* (timeout, HTTP status raised by raise_for_status, csv.Error) or the rows
\* of the CSV export.
SheetGrids ==
    { <<HdrFull, RowIvanov>>,
      <<HdrFull, RowPetrov, RowIvanovLast>>,
      <<HdrNoTotal, RowIvanovBare>> }

Answers ==
    {[err |-> "Timeout"], [err |-> "404 Client Error"]} \cup {[rows |-> g] : g \in SheetGrids}

\* fetch_csv_rows(gsheet_to_csv_url(sheet["url"])) for sheet number k: the
\* URLs of SHEETS all match the pattern of gsheet_to_csv_url, so the call
\* returns or raises as the server answers.
fetch_csv_rows(k) == remote[k]

\* the entry appended for a sheet whose evaluation returned f
ScoreEntry(sheet, f) ==
    IF ~IsNone(f)
    THEN [name |-> sheet.name, score |-> [num |-> Round3(f.sum)], ok |-> TRUE]
    ELSE [name |-> sheet.name, score |-> None, ok |-> FALSE]

\* the entry appended by the except branch
ErrorEntry(sheet, e) ==
    [name |-> sheet.name, score |-> None, ok |-> FALSE, error |-> e]

\* Variant of Fetch without the except branch's append: a failing sheet
\* leaves no entry.
FetchDropsFailedSheet ==
    /\ pc = "fetch"
    /\ sheet_i <= Len(SHEETS)
    /\ LET r == fetch_csv_rows(sheet_i)
       IN  IF "err" \in DOMAIN r
           THEN /\ sheet_i' = sheet_i + 1
                /\ UNCHANGED <<results, rows, pc>>
           ELSE /\ rows' = r.rows
                /\ pc' = "evaluate"
                /\ UNCHANGED <<results, sheet_i>>
    /\ UNCHANGED <<text, once, twice, cell, number, surname, flags, locals, found, remote, reads, restVars>>

\* Start of one loop iteration: the request for sheet sheet_i is made. An
\* exception is caught and recorded, and the loop moves on.
Fetch ==
    /\ pc = "fetch"
    /\ sheet_i <= Len(SHEETS)
    /\ LET r == fetch_csv_rows(sheet_i)
       IN  IF "err" \in DOMAIN r
           THEN /\ results' = Append(results, ErrorEntry(SHEETS[sheet_i], r.err))
                /\ sheet_i' = sheet_i + 1
                /\ UNCHANGED <<rows, pc>>
           ELSE /\ rows' = r.rows
                /\ pc' = "evaluate"
                /\ UNCHANGED <<results, sheet_i>>
    /\ UNCHANGED <<text, once, twice, cell, number, surname, flags, locals, found, remote, reads, restVars>>

\* Rest of the iteration: the rows are evaluated and the entry is appended.
Evaluate ==
    /\ pc = "evaluate"
    /\ flags' = [prefer_total |-> SHEETS[sheet_i].prefer_total,
                 sum_until_total |-> SHEETS[sheet_i].sum_until_total,
                 take_last_total |-> SHEETS[sheet_i].take_last_total]
    /\ locals' = FindLocals(rows, surname)
    /\ found' = find_score_by_surname(rows, surname, SHEETS[sheet_i].prefer_total,
                                      SHEETS[sheet_i].sum_until_total,
                                      SHEETS[sheet_i].take_last_total)
    /\ reads' = FindReads(rows, locals', SHEETS[sheet_i].prefer_total,
                           SHEETS[sheet_i].sum_until_total, SHEETS[sheet_i].take_last_total)
    /\ results' = Append(results, ScoreEntry(SHEETS[sheet_i], found'))
    /\ sheet_i' = sheet_i + 1
    /\ pc' = "fetch"
    /\ UNCHANGED <<text, once, twice, cell, number, rows, surname, remote, restVars>>

\* return jsonify(...)
Return ==
    /\ pc = "fetch"
    /\ sheet_i > Len(SHEETS)
    /\ pc' = "done"
    /\ UNCHANGED <<text, once, twice, cell, number, rows, surname, flags, locals, found,
                   remote, sheet_i, results, reads, restVars>>

Init ==
    /\ remote \in [1..Len(SHEETS) -> Answers]
    /\ surname \in {SurnameIvanov, SurnamePetr}
    /\ pc = "fetch"
    /\ sheet_i = 1
    /\ results = <<>>
    /\ rows = <<>>
    /\ flags = NotCalled
    /\ locals = NotCalled /\ found = NotCalled
    /\ text = <<>> /\ once = NotCalled /\ twice = NotCalled
    /\ cell = <<>> /\ number = NotCalled
    /\ reads = {}
    /\ RestIdle

Next == Fetch \/ Evaluate \/ Return

Spec == Init /\ [][Next]_vars

----------------------------------------------------------------------------
(* cmd_scores of the bot: the same loop over SHEETS. An iteration is two   *)
(* steps: the request is sent and the call of requests.get blocks; the     *)
(* answer arrives and the rest of the loop body runs.                      *)

\* the line appended to results for a sheet that did not fail
BotLine(sheet, f) ==
    IF ~IsNone(f) THEN <<sheet.name, [num |-> Round3(f.sum)]>> ELSE <<sheet.name, None>>

\* the line appended to errors
BotError(sheet, e) == <<sheet.name, e>>

\* the loop reaches sheet k and sends its request
BotRequest(k) ==
    /\ bot_pc = "request"
    /\ bot_i = k
    /\ k <= Len(SHEETS)
    /\ bot_pc' = "await"
    /\ UNCHANGED <<bot_i, bot_results, bot_errors>>
    /\ UNCHANGED <<scoreVars, locatorVars, adminVars, uploadVars>>

\* the answer for sheet bot_i arrives: the sheet is evaluated, or the
\* exception is recorded, and the loop moves on
BotAnswer ==
    /\ bot_pc = "await"
    /\ IF "err" \in DOMAIN fetch_csv_rows(bot_i)
       THEN /\ bot_errors' = Append(bot_errors, BotError(SHEETS[bot_i], fetch_csv_rows(bot_i).err))
            /\ UNCHANGED bot_results
       ELSE /\ bot_results' =
                   Append(bot_results,
                          BotLine(SHEETS[bot_i],
                                  find_score_by_surname(fetch_csv_rows(bot_i).rows, surname,
                                                        SHEETS[bot_i].prefer_total,
                                                        SHEETS[bot_i].sum_until_total,
                                                        SHEETS[bot_i].take_last_total)))
            /\ UNCHANGED bot_errors
    /\ bot_i' = bot_i + 1
    /\ bot_pc' = "request"
    /\ UNCHANGED <<scoreVars, locatorVars, adminVars, uploadVars>>

\* the replies are sent
BotReply ==
    /\ bot_pc = "request"
    /\ bot_i > Len(SHEETS)
    /\ bot_pc' = "done"
    /\ UNCHANGED <<bot_i, bot_results, bot_errors>>
    /\ UNCHANGED <<scoreVars, locatorVars, adminVars, uploadVars>>

InitBot ==
    /\ remote \in [1..Len(SHEETS) -> Answers]
    /\ surname \in {SurnameIvanov, SurnamePetr}
    /\ bot_pc = "request" /\ bot_i = 1 /\ bot_results = <<>> /\ bot_errors = <<>>
    /\ pc = "idle" /\ sheet_i = 0 /\ results = <<>>
    /\ rows = <<>> /\ flags = NotCalled /\ locals = NotCalled /\ found = NotCalled /\ reads = {}
    /\ text = <<>> /\ once = NotCalled /\ twice = NotCalled
    /\ cell = <<>> /\ number = NotCalled
    /\ LocatorIdle /\ AdminIdle /\ UploadIdle

NextBot == (\E k \in 1..Len(SHEETS) : BotRequest(k)) \/ BotAnswer \/ BotReply

SpecBot == InitBot /\ [][NextBot]_vars

----------------------------------------------------------------------------
(* _find_preferred_total_index called on any header row.                   *)

\* "Итог"
CellItog == <<1048, 1090, 1086, 1075>>

\* " TOTAL "
CellTotalPadded == <<32, 84, 79, 84, 65, 76, 32>>

\* "итог(доп)"
CellItogParen == <<1080, 1090, 1086, 1075, 40, 1076, 1086, 1087, 41>>

\* "итог 2"
CellItogTwo == <<1080, 1090, 1086, 1075, 32, 50>>

\* "итог (a) (b)"
CellItogTwoParens == <<1080, 1090, 1086, 1075, 32, 40, 97, 41, 32, 40, 98, 41>>

\* "Total score"
CellTotalScore == <<84, 111, 116, 97, 108, 32, 115, 99, 111, 114, 101>>

\* "Итоги"
CellItogi == <<1048, 1090, 1086, 1075, 1080>>

\* "subtotal"
CellSubtotal == <<115, 117, 98, 116, 111, 116, 97, 108>>

\* "лр1"
CellLab == <<1083, 1088, 49>>

HeaderCells ==
    {CellItog, CellTotalPadded, CellItogParen, CellItogTwo, CellItogTwoParens,
     CellTotalScore, CellItogi, CellSubtotal, CellLab, <<>>}

MaxHeaderLen == 3

RECURSIVE HeaderSeqs(_)
HeaderSeqs(n) ==
    IF n = 0 THEN {<<>>}
    ELSE HeaderSeqs(n - 1) \cup
         {Append(h, c) : h \in {g \in HeaderSeqs(n - 1) : Len(g) = n - 1}, c \in HeaderCells}

CallTotal ==
    /\ ~IsCalled(total_ret)
    /\ total_ret' = _find_preferred_total_index(header_cells)
    /\ UNCHANGED <<header_cells, grid, header_ret>>
    /\ UNCHANGED <<scoreVars, botVars, adminVars, uploadVars>>

InitTotal ==
    /\ header_cells \in HeaderSeqs(MaxHeaderLen)
    /\ total_ret = NotCalled
    /\ grid = <<>> /\ header_ret = NotCalled
    /\ ScoreIdle /\ BotIdle /\ AdminIdle /\ UploadIdle

NextTotal == CallTotal

SpecTotal == InitTotal /\ [][NextTotal]_vars

----------------------------------------------------------------------------
(* _find_header_row called on grids of up to MaxLead + 3 rows.             *)

\* "ФИО"
RowFio == <<<<1060, 1048, 1054>>>>

\* "№ Фамилия И.О.", "гр."
RowFamiliya == <<<<8470, 32, 1060, 1072, 1084, 1080, 1083, 1080, 1103, 32, 1048, 46, 1054, 46>>, <<1075, 1088, 46>>>>

\* "Группа", "Итог"
RowTotalAny == <<<<1043, 1088, 1091, 1087, 1087, 1072>>, <<1048, 1090, 1086, 1075>>>>

\* "x", "ЛР 3"
RowLab == <<<<120>>, <<1051, 1056, 32, 51>>>>

\* "Группа", "ФИО"
RowFioSecond == <<<<1043, 1088, 1091, 1087, 1087, 1072>>, <<1060, 1048, 1054>>>>

\* "клр1", "лр"
RowLabNoDigit == <<<<1082, 1083, 1088, 49>>, <<1083, 1088>>>>

\* "Группа 1"
RowPlain == <<<<1043, 1088, 1091, 1087, 1087, 1072, 32, 49>>>>

\* "", " \xa0"
RowBlank == <<<<>>, <<32, 160>>>>

\* a row without cells
RowEmpty == <<>>

ProbeRows ==
    {RowFio, RowFamiliya, RowTotalAny, RowLab, RowFioSecond, RowLabNoDigit, RowPlain,
     RowBlank, RowEmpty}

FillerRows == {RowEmpty, RowBlank, RowPlain}

MaxLead == 11

\* n copies of row r
Repeat(r, n) == [k \in 1..n |-> r]

\* a run of filler rows, a row, at most one empty row, a row; and the
\* grids that are only filler
HeaderGrids ==
    {Repeat(f, a) \o <<r1>> \o Repeat(RowEmpty, b) \o <<r2>> :
        f \in FillerRows, a \in 0..MaxLead, b \in 0..1, r1 \in ProbeRows, r2 \in ProbeRows}
    \cup {Repeat(f, a) : f \in FillerRows, a \in 0..MaxLead}

CallHeader ==
    /\ ~IsCalled(header_ret)
    /\ header_ret' = [num |-> _find_header_row(grid)]
    /\ UNCHANGED <<header_cells, total_ret, grid>>
    /\ UNCHANGED <<scoreVars, botVars, adminVars, uploadVars>>

InitHeader ==
    /\ grid \in HeaderGrids
    /\ header_ret = NotCalled
    /\ header_cells = <<>> /\ total_ret = NotCalled
    /\ ScoreIdle /\ BotIdle /\ AdminIdle /\ UploadIdle

NextHeader == CallHeader

SpecHeader == InitHeader /\ [][NextHeader]_vars

----------------------------------------------------------------------------
(* The user table and the handlers that change is_admin or delete users.   *)
(* A row of the table is [id, is_admin]; the actor of a request is the id  *)
(* in its session. flashed holds the outcome of the last request.          *)

MaxUsers == 3

UserIds == 1..MaxUsers

\* User.query.get(user_id) is not None
UserExists(us, uid) == \E u \in us : u.id = uid

\* User.query.get(user_id)
UserOf(us, uid) == CHOOSE u \in us : u.id = uid

\* User.query.filter_by(is_admin=True).count()
AdminCount(us) == Cardinality({u \in us : u.is_admin})

\* login_required and admin_required: the outcome for the actor, "" to go on
AdminGate(us, a) ==
    IF ~UserExists(us, a) THEN "login"
    ELSE IF ~UserOf(us, a).is_admin THEN "403"
    ELSE ""

\* Variant of DemoteCheck that tests only that the target is an admin.
DemoteCheckTargetOnly(us, a, uid) ==
    IF ~UserExists(us, uid) THEN "404"
    ELSE IF ~UserOf(us, uid).is_admin THEN "not_admin"
    ELSE ""

\* the checks of admin_user_demote: the refusal, or "" to go on
DemoteCheck(us, a, uid) ==
    IF ~UserExists(us, uid) THEN "404"
    ELSE IF ~UserOf(us, uid).is_admin THEN "not_admin"
    ELSE IF uid = a THEN "self"
    ELSE IF AdminCount(us) <= 1 THEN "last_admin"
    ELSE ""

\* the checks of admin_user_delete: the refusal, or "" to go on
DeleteCheck(us, a, uid) ==
    IF ~UserExists(us, uid) THEN "404"
    ELSE IF uid = a THEN "self"
    ELSE IF UserOf(us, uid).is_admin /\ AdminCount(us) <= 1 THEN "last_admin"
    ELSE ""

\* u.is_admin = b; db.session.commit()
SetAdmin(us, uid, b) ==
    {IF u.id = uid THEN [u EXCEPT !.is_admin = b] ELSE u : u \in us}

\* db.session.delete(u); db.session.commit()
RemoveUser(us, uid) == {u \in us : u.id # uid}

\* register with a valid form and a free username
register ==
    /\ next_user_id <= MaxUsers
    /\ users' = users \cup {[id |-> next_user_id, is_admin |-> (AdminCount(users) = 0)]}
    /\ next_user_id' = next_user_id + 1
    /\ flashed' = "registered"
    /\ UNCHANGED requests
    /\ UNCHANGED <<scoreVars, botVars, locatorVars, uploadVars>>

admin_user_promote(a, uid) ==
    /\ IF AdminGate(users, a) # "" THEN flashed' = AdminGate(users, a) /\ UNCHANGED users
       ELSE IF ~UserExists(users, uid) THEN flashed' = "404" /\ UNCHANGED users
       ELSE IF ~UserOf(users, uid).is_admin
       THEN users' = SetAdmin(users, uid, TRUE) /\ flashed' = "promoted"
       ELSE flashed' = "already_admin" /\ UNCHANGED users
    /\ UNCHANGED <<next_user_id, requests>>
    /\ UNCHANGED <<scoreVars, botVars, locatorVars, uploadVars>>

\* the whole handler, run with no other request in progress
admin_user_demote(a, uid) ==
    /\ requests = {}
    /\ IF AdminGate(users, a) # "" THEN flashed' = AdminGate(users, a) /\ UNCHANGED users
       ELSE IF DemoteCheck(users, a, uid) # ""
       THEN flashed' = DemoteCheck(users, a, uid) /\ UNCHANGED users
       ELSE users' = SetAdmin(users, uid, FALSE) /\ flashed' = "demoted"
    /\ UNCHANGED <<next_user_id, requests>>
    /\ UNCHANGED <<scoreVars, botVars, locatorVars, uploadVars>>

\* the whole handler, run with no other request in progress
admin_user_delete(a, uid) ==
    /\ requests = {}
    /\ IF AdminGate(users, a) # "" THEN flashed' = AdminGate(users, a) /\ UNCHANGED users
       ELSE IF DeleteCheck(users, a, uid) # ""
       THEN flashed' = DeleteCheck(users, a, uid) /\ UNCHANGED users
       ELSE users' = RemoveUser(users, uid) /\ flashed' = "deleted"
    /\ UNCHANGED <<next_user_id, requests>>
    /\ UNCHANGED <<scoreVars, botVars, locatorVars, uploadVars>>

\* The tables the application can start with: a fresh database, or one
\* that had users before the is_admin column was added or set.
MaxLegacyUsers == 2

LegacyTables ==
    UNION {{ {[id |-> i, is_admin |-> f[i]] : i \in 1..k} : f \in [1..k -> BOOLEAN] } :
              k \in 0..MaxLegacyUsers}

InitAdmin ==
    /\ users \in LegacyTables
    /\ next_user_id = Cardinality(users) + 1
    /\ requests = {}
    /\ flashed = ""
    /\ ScoreIdle /\ BotIdle /\ LocatorIdle /\ UploadIdle

NextAdmin ==
    \/ register
    \/ \E a \in UserIds, uid \in UserIds : admin_user_promote(a, uid)
    \/ \E a \in UserIds, uid \in UserIds : admin_user_demote(a, uid)
    \/ \E a \in UserIds, uid \in UserIds : admin_user_delete(a, uid)

SpecAdmin == InitAdmin /\ [][NextAdmin]_vars

----------------------------------------------------------------------------
(* The same handlers when requests run in parallel: a demote or delete     *)
(* request that passed its checks is in requests until it commits.         *)

MaxRequests == 2

\* admin_user_demote up to the last check
DemoteBegin(a, uid) ==
    /\ Cardinality(requests) < MaxRequests
    /\ IF AdminGate(users, a) # "" THEN flashed' = AdminGate(users, a) /\ UNCHANGED requests
       ELSE IF DemoteCheck(users, a, uid) # ""
       THEN flashed' = DemoteCheck(users, a, uid) /\ UNCHANGED requests
       ELSE requests' = requests \cup {[op |-> "demote", actor |-> a, target |-> uid]}
            /\ UNCHANGED flashed
    /\ UNCHANGED <<users, next_user_id>>
    /\ UNCHANGED <<scoreVars, botVars, locatorVars, uploadVars>>

\* admin_user_delete up to the last check
DeleteBegin(a, uid) ==
    /\ Cardinality(requests) < MaxRequests
    /\ IF AdminGate(users, a) # "" THEN flashed' = AdminGate(users, a) /\ UNCHANGED requests
       ELSE IF DeleteCheck(users, a, uid) # ""
       THEN flashed' = DeleteCheck(users, a, uid) /\ UNCHANGED requests
       ELSE requests' = requests \cup {[op |-> "delete", actor |-> a, target |-> uid]}
            /\ UNCHANGED flashed
    /\ UNCHANGED <<users, next_user_id>>
    /\ UNCHANGED <<scoreVars, botVars, locatorVars, uploadVars>>

\* the write and the commit of a request that passed its checks; a row that
\* is gone is not written
Commit(r) ==
    /\ r \in requests
    /\ requests' = requests \ {r}
    /\ IF r.op = "demote"
       THEN users' = SetAdmin(users, r.target, FALSE) /\ flashed' = "demoted"
       ELSE users' = RemoveUser(users, r.target) /\ flashed' = "deleted"
    /\ UNCHANGED next_user_id
    /\ UNCHANGED <<scoreVars, botVars, locatorVars, uploadVars>>

NextAdminRace ==
    \/ register
    \/ \E a \in UserIds, uid \in UserIds : admin_user_promote(a, uid)
    \/ \E a \in UserIds, uid \in UserIds : DemoteBegin(a, uid)
    \/ \E a \in UserIds, uid \in UserIds : DeleteBegin(a, uid)
    \/ \E r \in requests : Commit(r)

SpecAdminRace == InitAdmin /\ [][NextAdminRace]_vars

----------------------------------------------------------------------------
(* The deadline table and the upload directory. A row of the table is      *)
(* [id, file_path], file_path being None or [name |-> stored name]; disk   *)
(* is the set of stored names in UPLOAD_DIR; a stored name is the number   *)
(* of the uuid4 it was made from.                                          *)

MaxDeadlines == 2

MaxUploads == 4

\* request.files.get("attachment"): no file; a file with an allowed
\* extension; one with another extension; one with an allowed extension
\* whose name secure_filename reduces to a name without a dot
Attachments == {"none", "allowed", "disallowed", "unnamed"}

\* _save_upload returns a tuple (a file was written)
Saves(fs) == fs = "allowed"

\* _save_upload raises: orig.rsplit(".", 1)[1] on a name without a dot
SaveRaises(fs) == fs = "unnamed"

\* (UPLOAD_DIR / stored_name).unlink(missing_ok=True), nothing for None
_remove_upload(dsk, stored_name) ==
    IF IsNone(stored_name) THEN dsk ELSE dsk \ {stored_name.name}

DeadlineExists(ds, deadline_id) == \E d \in ds : d.id = deadline_id

DeadlineOf(ds, deadline_id) == CHOOSE d \in ds : d.id = deadline_id

\* POST /admin/deadlines/add
admin_add_deadline(valid, fs) ==
    /\ next_deadline_id <= MaxDeadlines
    /\ next_uuid <= MaxUploads
    /\ IF ~valid \/ SaveRaises(fs)
       THEN UNCHANGED <<deadlines, next_deadline_id, disk, next_uuid>>
       ELSE /\ next_deadline_id' = next_deadline_id + 1
            /\ IF Saves(fs)
               THEN /\ disk' = disk \cup {next_uuid}
                    /\ next_uuid' = next_uuid + 1
                    /\ deadlines' = deadlines \cup
                           {[id |-> next_deadline_id, file_path |-> [name |-> next_uuid]]}
               ELSE /\ deadlines' = deadlines \cup {[id |-> next_deadline_id, file_path |-> None]}
                    /\ UNCHANGED <<disk, next_uuid>>
    /\ UNCHANGED <<scoreVars, botVars, locatorVars, adminVars>>

\* d.file_path after the remove_attachment block
PathAfterRemove(d, remove_attachment) == IF remove_attachment THEN None ELSE d.file_path

\* the files on disk after the remove_attachment block
DiskAfterRemove(dsk, d, remove_attachment) ==
    IF remove_attachment THEN _remove_upload(dsk, d.file_path) ELSE dsk

\* POST /admin/deadlines/<deadline_id>/edit
admin_deadline_edit(deadline_id, valid, remove_attachment, fs) ==
    /\ DeadlineExists(deadlines, deadline_id)
    /\ next_uuid <= MaxUploads
    /\ IF ~valid
       THEN UNCHANGED <<deadlines, disk, next_uuid>>
       ELSE IF SaveRaises(fs)
       THEN /\ disk' = DiskAfterRemove(disk, DeadlineOf(deadlines, deadline_id), remove_attachment)
            /\ UNCHANGED <<deadlines, next_uuid>>
       ELSE IF Saves(fs)
       THEN /\ disk' = _remove_upload(
                           DiskAfterRemove(disk, DeadlineOf(deadlines, deadline_id),
                                           remove_attachment) \cup {next_uuid},
                           PathAfterRemove(DeadlineOf(deadlines, deadline_id), remove_attachment))
            /\ next_uuid' = next_uuid + 1
            /\ deadlines' = (deadlines \ {DeadlineOf(deadlines, deadline_id)}) \cup
                                {[id |-> deadline_id, file_path |-> [name |-> next_uuid]]}
       ELSE /\ disk' = DiskAfterRemove(disk, DeadlineOf(deadlines, deadline_id), remove_attachment)
            /\ deadlines' = (deadlines \ {DeadlineOf(deadlines, deadline_id)}) \cup
                                {[id |-> deadline_id,
                                  file_path |-> PathAfterRemove(DeadlineOf(deadlines, deadline_id),
                                                                remove_attachment)]}
            /\ UNCHANGED next_uuid
    /\ UNCHANGED next_deadline_id
    /\ UNCHANGED <<scoreVars, botVars, locatorVars, adminVars>>

\* POST /admin/deadlines/<deadline_id>/delete
admin_deadline_delete(deadline_id) ==
    /\ DeadlineExists(deadlines, deadline_id)
    /\ deadlines' = deadlines \ {DeadlineOf(deadlines, deadline_id)}
    /\ UNCHANGED <<next_deadline_id, disk, next_uuid>>
    /\ UNCHANGED <<scoreVars, botVars, locatorVars, adminVars>>

InitUploads ==
    /\ deadlines = {}
    /\ next_deadline_id = 1
    /\ disk = {}
    /\ next_uuid = 1
    /\ ScoreIdle /\ BotIdle /\ LocatorIdle /\ AdminIdle

NextUploads ==
    \/ \E valid \in BOOLEAN, fs \in Attachments : admin_add_deadline(valid, fs)
    \/ \E deadline_id \in 1..MaxDeadlines, valid \in BOOLEAN, remove_attachment \in BOOLEAN,
          fs \in Attachments :
            admin_deadline_edit(deadline_id, valid, remove_attachment, fs)
    \/ \E deadline_id \in 1..MaxDeadlines : admin_deadline_delete(deadline_id)

SpecUploads == InitUploads /\ [][NextUploads]_vars

----------------------------------------------------------------------------
(* find_score_by_surname called on any grid, surname and flags.            *)

CallFind ==
    /\ ~IsCalled(found)
    /\ locals' = FindLocals(rows, surname)
    /\ \E f \in FlagSets :
        /\ flags' = f
        /\ found' = FindResult(rows, locals', f.prefer_total,
                               f.sum_until_total, f.take_last_total)
        /\ reads' = FindReads(rows, locals', f.prefer_total,
                              f.sum_until_total, f.take_last_total)
    /\ UNCHANGED <<text, once, twice, cell, number, rows, surname,
                   remote, pc, sheet_i, results, restVars>>

InitFind ==
    /\ rows \in Grids
    /\ surname \in Surnames
    /\ flags = NotCalled
    /\ locals = NotCalled /\ found = NotCalled
    /\ remote = <<>> /\ pc = "idle" /\ sheet_i = 0 /\ results = <<>>
    /\ text = <<>> /\ once = NotCalled /\ twice = NotCalled
    /\ cell = <<>> /\ number = NotCalled
    /\ reads = {}
    /\ RestIdle

NextFind == CallFind

SpecFind == InitFind /\ [][NextFind]_vars

----------------------------------------------------------------------------
(* _safe_number called on any cell.                                        *)

ParseCell ==
    /\ ~IsCalled(number)
    /\ number' = _safe_number(cell)
    /\ UNCHANGED <<text, once, twice, cell, rows, surname, flags, locals, found,
                   remote, pc, sheet_i, results, reads, restVars>>

InitNumber ==
    /\ cell \in NumberCells
    /\ number = NotCalled
    /\ rows = <<>> /\ surname = <<>> /\ flags = NotCalled /\ locals = NotCalled /\ found = NotCalled
    /\ remote = <<>> /\ pc = "idle" /\ sheet_i = 0 /\ results = <<>>
    /\ text = <<>> /\ once = NotCalled /\ twice = NotCalled
    /\ reads = {}
    /\ RestIdle

NextNumber == ParseCell

SpecNumber == InitNumber /\ [][NextNumber]_vars

----------------------------------------------------------------------------
(* _norm and _norm_name applied once, then to their own results.           *)

Normalize ==
    /\ ~IsCalled(once)
    /\ once' = [norm |-> _norm(text), name |-> _norm_name(text)]
    /\ UNCHANGED <<text, twice, cell, number, rows, surname, flags, locals, found,
                   remote, pc, sheet_i, results, reads, restVars>>

NormalizeAgain ==
    /\ IsCalled(once)
    /\ ~IsCalled(twice)
    /\ twice' = [norm |-> _norm(once.norm), name |-> _norm_name(once.name)]
    /\ UNCHANGED <<text, once, cell, number, rows, surname, flags, locals, found,
                   remote, pc, sheet_i, results, reads, restVars>>

InitNorm ==
    /\ text \in Strings(MaxTextLen)
    /\ once = NotCalled
    /\ twice = NotCalled
    /\ cell = <<>> /\ number = NotCalled
    /\ rows = <<>> /\ surname = <<>> /\ flags = NotCalled /\ locals = NotCalled /\ found = NotCalled
    /\ remote = <<>> /\ pc = "idle" /\ sheet_i = 0 /\ results = <<>>
    /\ reads = {}
    /\ RestIdle

NextNorm == Normalize \/ NormalizeAgain

SpecNorm == InitNorm /\ [][NextNorm]_vars

----------------------------------------------------------------------------
(* Properties of find_score_by_surname, checked under SpecFind.            *)

NoFlags == [prefer_total |-> FALSE, sum_until_total |-> FALSE, take_last_total |-> FALSE]

\* the call has returned and its row search found a row
HasMatch == IsCalled(found) /\ ~IsNone(locals) /\ ~IsNone(locals.row_idx)

MatchedRow == rows[locals.row_idx.num + 1]

\* positions (from 1) of the cells of a row that parse as a number
ParsableAt(row) == {k \in 1..Len(row) : ~IsNone(_safe_number(row[k]))}

ValueAt(row, k) == _safe_number(row[k]).num

RECURSIVE ValuesInOrder(_, _)
ValuesInOrder(row, S) ==
    IF S = {} THEN <<>>
    ELSE <<ValueAt(row, SetMin(S))>> \o ValuesInOrder(row, S \ {SetMin(S)})

\* the single value of the cell at position k
IsSoleValue(res, row, k) ==
    res = [sum |-> ValueAt(row, k), values |-> <<ValueAt(row, k)>>, row |-> row]

\* stop, as the claim states it: the total column if one was found, else
\* the header length, else no limit
ColumnsLeftOfStop(row) ==
    IF ~IsNone(locals.total_idx) THEN {k \in 1..Len(row) : k - 1 < locals.total_idx.num}
    ELSE IF locals.headers # <<>> THEN {k \in 1..Len(row) : k - 1 < Len(locals.headers)}
    ELSE 1..Len(row)

\* score is a multiple of 0.001 that is nearest to the sum of vals
IsRoundedSum(score, vals) == score % 10 = 0 /\ Abs(score - Sum(vals)) <= 5

IsSumUntilTotal(res, row) ==
    /\ ~IsNone(res)
    /\ res.row = row
    /\ res.values = ValuesInOrder(row, ParsableAt(row) \cap ColumnsLeftOfStop(row))
    /\ IsRoundedSum(res.sum, res.values)

\* a total column was found, lies within the row and its cell parses
TotalCellParses(row) ==
    /\ ~IsNone(locals.total_idx)
    /\ locals.total_idx.num < Len(row)
    /\ locals.total_idx.num + 1 \in ParsableAt(row)

IsPreferTotal(res, row) ==
    IF TotalCellParses(row) THEN IsSoleValue(res, row, locals.total_idx.num + 1)
    ELSE IsSumUntilTotal(res, row)

IsTakeLast(res, row) ==
    IF ParsableAt(row) = {} THEN IsNone(res)
    ELSE IsSoleValue(res, row, SetMax(ParsableAt(row)))

\* C2: on a matched row, for each of the eight flag combinations,
\* take_last_total decides if set, else prefer_total if set, else the
\* sum-until-total policy; and the call with no flag set returns what the
\* call with only sum_until_total set returns.
C2_FlagPrecedence ==
    HasMatch =>
        /\ flags.take_last_total => IsTakeLast(found, MatchedRow)
        /\ ~flags.take_last_total /\ flags.prefer_total => IsPreferTotal(found, MatchedRow)
        /\ ~flags.take_last_total /\ ~flags.prefer_total => IsSumUntilTotal(found, MatchedRow)
        /\ flags = NoFlags => found = FindResult(rows, locals, FALSE, TRUE, FALSE)

\* all three flags set on a row whose last number is not its total cell:
\* the last number was returned
C2_Witness ==
    /\ HasMatch
    /\ flags.take_last_total /\ flags.prefer_total /\ flags.sum_until_total
    /\ TotalCellParses(MatchedRow)
    /\ ~IsNone(found)
    /\ found.sum # ValueAt(MatchedRow, locals.total_idx.num + 1)

\* C3: under sum-until-total and under the default, the contributing values
\* are exactly the parsable cells of the matched row left of stop, in column
\* order, and the score is their sum rounded to 3 decimals; stop is the
\* total column index if one was found, else the header length; the total
\* cell and the cells right of it contribute nothing.
C3_SumUntilTotal ==
    HasMatch /\ ~flags.take_last_total /\ ~flags.prefer_total =>
        /\ ~IsNone(found)
        /\ found.row = MatchedRow
        /\ found.values =
               ValuesInOrder(MatchedRow, ParsableAt(MatchedRow) \cap ColumnsLeftOfStop(MatchedRow))
        /\ IsRoundedSum(found.sum, found.values)
        /\ locals.stop_at = IF ~IsNone(locals.total_idx) THEN locals.total_idx.num
                            ELSE IF locals.headers # <<>> THEN Len(locals.headers)
                            ELSE Unbounded

\* the example of the specification: header with "Итог" in column 3, row
\* "Иванов", 5, 7, 12, ok: the values are 5 and 7 and the score is 12, the
\* parsable total cell 12 left out
C3_Witness ==
    /\ HasMatch
    /\ flags = [prefer_total |-> FALSE, sum_until_total |-> TRUE, take_last_total |-> FALSE]
    /\ locals.headers = HdrFull
    /\ MatchedRow = RowIvanov
    /\ found.values = <<5 * Scale, 7 * Scale>>
    /\ found.sum = 12 * Scale

\* C4: with prefer_total set and take_last_total not set, on a matched row:
\* if a total column was found, lies within the row and its cell parses,
\* the result is that value alone; otherwise the result is the
\* sum-until-total result for the same inputs; it is never absent.
C4_PreferTotal ==
    HasMatch /\ flags.prefer_total /\ ~flags.take_last_total =>
        /\ ~IsNone(found)
        /\ TotalCellParses(MatchedRow) =>
               IsSoleValue(found, MatchedRow, locals.total_idx.num + 1)
        /\ ~TotalCellParses(MatchedRow) =>
               found = FindResult(rows, locals, FALSE, TRUE, FALSE)

\* prefer_total on a row whose total cell is "abc": the result is the sum
\* of the cells left of it
C4_Witness ==
    /\ HasMatch
    /\ flags.prefer_total /\ ~flags.take_last_total
    /\ locals.headers = HdrFull
    /\ MatchedRow = RowPetrov
    /\ found.values = <<4, 6>>
    /\ found.sum = 10

\* C5: with take_last_total set, on a matched row, the result is the value
\* of the parsable cell of highest index, alone, whatever the header row and
\* the total column are; it is absent if no cell of the row parses.
C5_TakeLast ==
    HasMatch /\ flags.take_last_total =>
        IF ParsableAt(MatchedRow) = {} THEN IsNone(found)
        ELSE /\ found.row = MatchedRow
             /\ found.values = <<ValueAt(MatchedRow, SetMax(ParsableAt(MatchedRow)))>>
             /\ found.sum = found.values[1]

\* take_last_total on "Сидоров Пётр", 100000, -2, 3,5, 4, 9: the result is 9,
\* right of the header's last column, and not one of the earlier numbers
C5_Witness ==
    /\ HasMatch
    /\ flags.take_last_total
    /\ MatchedRow = RowSidorov
    /\ found.values = <<9 * Scale>>
    /\ Len(locals.headers) < Len(MatchedRow)

\* C6: a result is never returned with a score and no contributing value:
\* the score is absent when the person is not found or the matched row has
\* no numeric data.
C6_NoScoreWithoutValues ==
    IsCalled(found) /\ ~IsNone(found) => found.values # <<>>

\* text of a grid row as the row matcher reads it
RowText(row) == _norm_name(JoinSpace(row))

\* Python indices of the rows strictly after the header whose text contains
\* the target as a substring
RowsContainingTarget ==
    {i \in (locals.hdr_idx + 1)..(Len(rows) - 1) :
        Contains(RowText(rows[i + 1]), _norm_name(surname))}

\* C7 as stated: the row used is the lowest-index row strictly after the
\* header whose text contains the normalised target as a substring; if
\* there is no such row the result is None.
C7_FirstRowContainingTarget ==
    IsCalled(found) /\ ~IsNone(locals) =>
        IF RowsContainingTarget = {}
        THEN IsNone(locals.row_idx) /\ IsNone(found)
        ELSE /\ locals.row_idx = [num |-> SetMin(RowsContainingTarget)]
             /\ ~IsNone(found) => found.row = rows[SetMin(RowsContainingTarget) + 1]

\* C7 amended: the same, for a non-empty normalised target; an empty one
\* matches no row.
C7_FirstRowContainingNonEmptyTarget ==
    IsCalled(found) /\ ~IsNone(locals) =>
        IF _norm_name(surname) = <<>> \/ RowsContainingTarget = {}
        THEN IsNone(locals.row_idx) /\ IsNone(found)
        ELSE /\ locals.row_idx = [num |-> SetMin(RowsContainingTarget)]
             /\ ~IsNone(found) => found.row = rows[SetMin(RowsContainingTarget) + 1]

\* title and header both contain the target and two rows after the header
\* do: the first of the two is used
C7_Witness ==
    /\ IsCalled(found)
    /\ rows = <<TitleRow, HdrTotalEarly, RowIvanovLast, RowIvanov>>
    /\ surname = SurnameIvanov
    /\ locals.hdr_idx = 1
    /\ locals.row_idx = [num |-> 2]
    /\ ~IsNone(found)
    /\ found.row = RowIvanovLast

\* C8: a target that normalises to the empty string matches no row: the
\* result is None for every grid and every flag combination.
C8_EmptyTargetNotFound ==
    IsCalled(found) /\ _norm_name(surname) = <<>> =>
        /\ IsNone(found)
        /\ ~IsNone(locals) => IsNone(locals.row_idx)

\* the surname "Ivanov 7" (no Cyrillic letter) on a grid with rows after the
\* header: nothing found
C8_Witness ==
    /\ IsCalled(found)
    /\ surname = SurnameLatin
    /\ ~IsNone(locals)
    /\ locals.hdr_idx + 1 < Len(rows)
    /\ IsNone(found)

----------------------------------------------------------------------------
(* Properties of _safe_number, checked under SpecNumber.                   *)

\* C9: _safe_number returns None or a finite number of magnitude below
\* 100000: 99999.999 is accepted, 100000 and -100000 are rejected, "3,5" is
\* 3.5, and the empty string, "abc", "inf" and "nan" give None, never 0.
C9_SafeNumberBounds ==
    IsCalled(number) =>
        /\ IsNone(number) \/ (-MagnitudeLimit * Scale < number.num /\ number.num < MagnitudeLimit * Scale)
        /\ cell = <<57, 57, 57, 57, 57, 46, 57, 57, 57>> => number = [num |-> 99999 * Scale + 9990]
        /\ cell = <<49, 48, 48, 48, 48, 48>> => IsNone(number)
        /\ cell = <<45, 49, 48, 48, 48, 48, 48>> => IsNone(number)
        /\ cell = <<51, 44, 53>> => number = [num |-> 3 * Scale + 5000]
        /\ cell = <<>> => IsNone(number)
        /\ cell \in Words => IsNone(number)

\* "99999.999" was parsed and accepted
C9_Witness ==
    /\ IsCalled(number)
    /\ cell = <<57, 57, 57, 57, 57, 46, 57, 57, 57>>
    /\ ~IsNone(number)
    /\ number.num = 99999 * Scale + 9990

----------------------------------------------------------------------------
(* Properties of the normalizer, checked under SpecNorm.                   *)

\* C10: normalisation is idempotent for both variants:
\* _norm(_norm(s)) = _norm(s) and _norm_name(_norm_name(s)) = _norm_name(s).
C10_NormIdempotent ==
    IsCalled(twice) => twice.norm = once.norm /\ twice.name = once.name

----------------------------------------------------------------------------
(* Properties of api_scores, checked under Spec.                           *)

\* the entry of sheet k as it is when the sheet is processed alone
EntryAlone(k) ==
    IF "err" \in DOMAIN remote[k]
    THEN [name |-> SHEETS[k].name, score |-> None, ok |-> FALSE, error |-> remote[k].err]
    ELSE ScoreEntry(SHEETS[k],
                    find_score_by_surname(remote[k].rows, surname, SHEETS[k].prefer_total,
                                          SHEETS[k].sum_until_total, SHEETS[k].take_last_total))

\* C1: whatever sheets fail, the run returns exactly one entry per sheet,
\* in the order of SHEETS: a failing sheet has an entry with its error
\* detail, a sheet that does not fail has the entry it has when no other
\* sheet fails; none is dropped or duplicated.
C1_OneEntryPerSource ==
    /\ Len(results) = (IF pc = "evaluate" THEN sheet_i - 1 ELSE Min2(sheet_i - 1, Len(SHEETS)))
    /\ \A k \in 1..Len(results) :
        /\ results[k].name = SHEETS[k].name
        /\ ("error" \in DOMAIN results[k]) = ("err" \in DOMAIN remote[k])
    /\ pc = "done" =>
        /\ Len(results) = Len(SHEETS)
        /\ \A k \in 1..Len(SHEETS) : results[k] = EntryAlone(k)

\* the first and third sheet failed, the second and fourth have a score
C1_Witness ==
    /\ pc = "done"
    /\ Len(results) = 4
    /\ results[1] = [name |-> "ISRPO", score |-> None, ok |-> FALSE, error |-> "Timeout"]
    /\ results[2].ok /\ ~IsNone(results[2].score)
    /\ "error" \in DOMAIN results[3]
    /\ results[4].ok /\ ~IsNone(results[4].score)

----------------------------------------------------------------------------
(* Robustness of find_score_by_surname, checked under SpecFind.            *)

\* C12: on every grid (the empty grid, empty rows, rows of differing
\* lengths, rows shorter than the header or than the total column index),
\* target and flag combination, find_score_by_surname returns a result or
\* None, and every subscript it evaluates is within the list it indexes.
C12_NoIndexOutsideRow ==
    IsCalled(found) =>
        /\ \A r \in reads : 0 <= r.idx /\ r.idx < r.len
        /\ \/ IsNone(found)
           \/ /\ DOMAIN found = {"sum", "values", "row"}
              /\ found.row \in {rows[i] : i \in 1..Len(rows)}

\* prefer_total on a matched row that ends left of the total column, in a
\* grid that starts with an empty row: a result was returned
C12_Witness ==
    /\ HasMatch
    /\ flags.prefer_total /\ ~flags.take_last_total
    /\ rows[1] = <<>>
    /\ ~IsNone(locals.total_idx)
    /\ locals.total_idx.num >= Len(MatchedRow)
    /\ Len(MatchedRow) < Len(locals.headers)
    /\ ~IsNone(found)
    /\ reads # {}

----------------------------------------------------------------------------
(* The fan-out over the sheets, checked under SpecBot.                     *)

\* C11: the sheets are processed concurrently: while the answer of one
\* sheet is awaited, the request of every sheet that has not been requested
\* yet can be sent, so a slow sheet does not delay the start of the others.
C11_SlowSourceDoesNotDelayOthers ==
    \A k \in 1..Len(SHEETS) :
        (bot_pc = "await" /\ k > bot_i) => ENABLED BotRequest(k)

----------------------------------------------------------------------------
(* Properties of _find_preferred_total_index, checked under SpecTotal.     *)

\* the rank the claim gives each header cell of the model: 1 for exactly
\* "итог", exactly "total" or "итог (...)", 2 for a cell that starts with
\* "итог " or "total ", 3 for a cell that contains "итог" or "total"
\* elsewhere, 0 for no match
ClaimedRank(c) ==
    IF c \in {CellItog, CellTotalPadded, CellItogParen} THEN 1
    ELSE IF c \in {CellItogTwo, CellItogTwoParens, CellTotalScore} THEN 2
    ELSE IF c \in {CellItogi, CellSubtotal} THEN 3
    ELSE 0

\* Python indices of the header cells that have a rank
RankedColumns == {j \in 0..(Len(header_cells) - 1) : ClaimedRank(header_cells[j + 1]) # 0}

LowestRank == SetMin({ClaimedRank(header_cells[j + 1]) : j \in RankedColumns})

\* C13: _find_preferred_total_index returns the highest column index among
\* the cells of the lowest rank present; the index is a valid index of the
\* header row; the result is None exactly when no cell has a rank.
C13_RightmostOfBestRank ==
    IsCalled(total_ret) =>
        IF RankedColumns = {} THEN IsNone(total_ret)
        ELSE /\ ~IsNone(total_ret)
             /\ 0 <= total_ret.num /\ total_ret.num < Len(header_cells)
             /\ total_ret.num =
                    SetMax({j \in RankedColumns : ClaimedRank(header_cells[j + 1]) = LowestRank})

\* "Итог", "итог(доп)", "итог 2": two cells of rank 1, then one of rank 2;
\* the second cell of rank 1 is returned
C13_Witness ==
    /\ IsCalled(total_ret)
    /\ header_cells = <<CellItog, CellItogParen, CellItogTwo>>
    /\ total_ret = [num |-> 1]

----------------------------------------------------------------------------
(* Properties of _find_header_row, checked under SpecHeader.               *)

\* the rows of the model that satisfy a header marker as the claim states
\* it: the first cell contains "фио" or "фамилия", a cell contains "итог",
\* a cell matches "лр", optional whitespace, digit
ClaimedMarkerRows == {RowFio, RowFamiliya, RowTotalAny, RowLab}

\* the rows of the model with a non-blank cell
ClaimedNonBlankRows == ProbeRows \ {RowBlank, RowEmpty}

\* Python indices of the marker rows among the first 10 rows
MarkersInFirstTen == {i \in 0..(Len(grid) - 1) : i < 10 /\ grid[i + 1] \in ClaimedMarkerRows}

NonBlankIndices == {i \in 0..(Len(grid) - 1) : grid[i + 1] \in ClaimedNonBlankRows}

\* C14: if one of the first 10 rows satisfies a header marker,
\* _find_header_row returns the lowest index of such a row; a marker in row
\* 10 or later is not a reason to choose a row: when the first 10 rows have
\* no marker, every row before the returned one is blank.
C14_FirstMarkerRowInFirstTen ==
    IsCalled(header_ret) =>
        /\ MarkersInFirstTen # {} => header_ret.num = SetMin(MarkersInFirstTen)
        /\ MarkersInFirstTen = {} =>
               \A i \in 0..(header_ret.num - 1) : grid[i + 1] \notin ClaimedNonBlankRows

\* nine plain rows, then "ФИО" in row 9 and a total row in row 10: row 9 is
\* returned although rows 0..8 are not blank
C14_Witness ==
    /\ IsCalled(header_ret)
    /\ grid = Repeat(RowPlain, 9) \o <<RowFio, RowTotalAny>>
    /\ header_ret = [num |-> 9]

\* C15: if none of the first 10 rows satisfies a header marker,
\* _find_header_row returns the index of the first row of the whole grid
\* that has a non-blank cell, and 0 when every row is empty or blank; on a
\* non-empty grid the returned index is a valid row index.
C15_FallbackFirstNonBlankRow ==
    IsCalled(header_ret) =>
        /\ MarkersInFirstTen = {} =>
               header_ret.num = (IF NonBlankIndices = {} THEN 0 ELSE SetMin(NonBlankIndices))
        /\ grid # <<>> => 0 <= header_ret.num /\ header_ret.num < Len(grid)

\* ten blank rows, an empty row, then "ФИО" in row 11: it is beyond the
\* first 10 rows and is returned as the first row with a non-blank cell
\* only after the blank rows were passed over
C15_Witness ==
    /\ IsCalled(header_ret)
    /\ grid = Repeat(RowBlank, 10) \o <<RowEmpty, RowFio>>
    /\ header_ret = [num |-> 11]

----------------------------------------------------------------------------
(* Properties of the admin handlers.                                       *)

HasAdmin == AdminCount(users) >= 1

\* C16: with requests handled one at a time, once there is an admin, no
\* register, promote, demote or delete-user request leaves the table
\* without an admin (checked under SpecAdmin).
C16_AdminRemains == [][HasAdmin => HasAdmin']_vars

\* a demote request was carried out and left exactly one admin among
\* several users
C16_Witness ==
    /\ flashed = "demoted"
    /\ AdminCount(users) = 1
    /\ Cardinality(users) >= 2

\* C17: the same when demote and delete-user requests of different admins
\* are interleaved between their checks and their commit: no step leaves
\* the table without an admin (checked under SpecAdminRace).
C17_AdminRemainsWhenInterleaved ==
    [][AdminCount(users) >= 1 => AdminCount(users') >= 1]_adminVars

----------------------------------------------------------------------------
(* Properties of the deadline handlers, checked under SpecUploads.         *)

\* C18: after any sequence of add, edit and delete requests, every file in
\* the upload directory is the file_path of exactly one deadline.
C18_NoOrphanedUpload ==
    \A f \in disk : Cardinality({d \in deadlines : d.file_path = [name |-> f]}) = 1

====
